---- MODULE Spec2Model ----
(***************************************************************************)
(* The control loop of the notes console (src/src/app/core.rs): the        *)
(* application state machine, the four kinds of background worker and the  *)
(* channels they report on, and the related-files memo.                    *)
(*                                                                         *)
(* `app` is the App struct.  Every method of App is an operator from an    *)
(* App value (and the method's inputs) to the App value it leaves behind.  *)
(* `pc` is the position of the control loop inside App::run: one loop      *)
(* iteration is the steps poll, vector, scan, index, process, recv, in     *)
(* that order; worker threads and the clock move between any two steps.    *)
(***************************************************************************)
EXTENDS Integers, Sequences, FiniteSets, TLC

VARIABLES
    app,          \* the App struct
    pc,           \* position of the control loop in App::run
    key_event,    \* the key the poll just read, until the step after its dispatch
    key_ctx,      \* history: where that key was handled and the search it called
    scan_worker,  \* the scan thread and its channel
    idx_workers,  \* the index-build threads and their channels
    vec_workers,  \* the vector-index threads and their channels
    rf_workers,   \* the related-files threads and their channels
    iter_event,   \* history: what the key phase of the current iteration did
    epoch,        \* history: the lookups issued since the selection was settled
    boot          \* history: how far the keyless start-up has come

workers == <<scan_worker, idx_workers, vec_workers, rf_workers>>
history == <<iter_event, epoch, boot>>
vars == <<app, pc, key_event, key_ctx, workers, history>>

----------------------------------------------------------------------------
(* Bounds of the model. *)

NumPaths == 2        \* documents the search engine knows
MaxResults == 2      \* longest result list a search returns
MaxQueryLen == 1     \* longest query typed
MaxIndexRuns == 2    \* index-build workers alive at one time
MaxVectorRuns == 1   \* vector-index workers alive at one time
MaxLookups == 2      \* related-files workers alive at one time
MaxTyped == 3        \* longest query typed where the typing is what is checked
MaxAlive == 1        \* workers of a kind alive where every channel is driven

(* Program constant: the grace period of App::run, in seconds. *)
GRACE_SECS == 2

----------------------------------------------------------------------------
(* Values. *)

\* Option<T>: None is the empty sequence, Some(x) the one-element sequence.
None == <<>>
Some(x) == <<x>>
NoKey == [code |-> "none", ctrl |-> FALSE]

Paths == 1..NumPaths

\* A SearchResult is known to the loop by its path only.
SearchResult(p) == [path |-> p]

RECURSIVE SeqsUpTo(_, _)
SeqsUpTo(S, n) ==
    IF n = 0 THEN {<<>>}
    ELSE LET shorter == SeqsUpTo(S, n - 1)
         IN  shorter \cup {Append(s, x) : s \in shorter, x \in S}

\* The search engine answers with each document at most once.
NoDuplicates(r) == \A i, j \in DOMAIN r : r[i] = r[j] => i = j

ResultLists ==
    {r \in SeqsUpTo({SearchResult(p) : p \in Paths}, MaxResults) : NoDuplicates(r)}

\* What SearchEngine::search answers: Ok(list) or Err.
SearchOutcomes ==
    {[ok |-> TRUE, results |-> r] : r \in ResultLists}
        \cup {[ok |-> FALSE, results |-> <<>>]}


\* A key press is its KeyCode and whether Ctrl is held.  The codes that are
\* not in Chars are the named keys; a code in Chars is KeyCode::Char(code).
Chars == {"q", "r", "/", "s", "e", "p", "c", "f", "o"}
Key(c) == [code |-> c, ctrl |-> FALSE]
Ctrl(c) == [code |-> c, ctrl |-> TRUE]

\* The keys pressed while searching and browsing related files.
SearchKeys ==
    {Key("Esc"), Key("Enter"), Key("Tab"), Key("r"), Key("Up"), Key("Down"),
     Key("Backspace"), Key("/"), Ctrl("s")}

\* The keys of the command palette, of quitting and of entering search.
PaletteKeys ==
    {Ctrl("p"), Ctrl("c"), Key("q"), Key("Esc"), Key("Enter"), Key("Down"),
     Ctrl("s")}

\* What the search engine answers while the palette is what is checked: one
\* document, or an error.
PaletteOutcomes ==
    {[ok |-> TRUE, results |-> <<SearchResult(1)>>], [ok |-> FALSE, results |-> <<>>]}

\* The keys of typing a query.
TypingKeys ==
    {Key("f"), Key("o"), Key("Backspace"), Key("Enter"), Key("Esc"), Key("/"),
     Key("Down"), Ctrl("s")}

Keys == SearchKeys \cup PaletteKeys \cup TypingKeys

IsCtrl(key, c) == key.ctrl /\ key.code = c

\* Option<&SearchResult> of search_results.get(selected_search_index)
HasSelected(a) == a.selected_search_index < Len(a.search_results)
Selected(a) == a.search_results[a.selected_search_index + 1]

\* What a related-files worker for document p sends on success: a non-empty
\* list that never holds p itself.
RelatedOf(p) == <<[related_to |-> p]>>

----------------------------------------------------------------------------
(* impl Default for App *)

DefaultApp ==
    [ running |-> FALSE,
      state |-> "Starting",
      scan_result |-> None,
      scan_summary |-> None,
      scanning_receiver |-> FALSE,
      search_query |-> <<>>,
      search_results |-> <<>>,
      selected_search_index |-> 0,
      search_engine |-> FALSE,
      indexing_receiver |-> 0,
      command_items |-> <<>>,
      selected_command_index |-> 0,
      vector_indexing_status |-> None,
      vector_indexing_complete |-> FALSE,
      vector_indexing_success_time |-> None,
      vector_indexing_receiver |-> 0,
      detail_view_mode |-> "Preview",
      related_files |-> <<>>,
      input_mode |-> "Editing",
      is_loading_related_files |-> FALSE,
      related_files_receiver |-> 0,
      related_files_error |-> None,
      current_related_document_path |-> None ]

set_search_engine(a) == [a EXCEPT !.search_engine = TRUE]

----------------------------------------------------------------------------
(* Methods of App.  `newid` is the channel a worker spawned by the method  *)
(* would report on; a receiver field holding it says the worker was        *)
(* spawned.  A receiver of 0 is None.                                      *)

enter_vector_indexing_mode(a, newid) ==
    [a EXCEPT !.state = "IndexingVectors",
              !.vector_indexing_status = Some("Starting vector indexing..."),
              !.vector_indexing_complete = FALSE,
              !.vector_indexing_success_time = None,
              !.vector_indexing_receiver = newid]

CommandNames == <<"Search", "Index Vectors", "Open Config Editor", "Quit">>

\* The palette opened on the entry it was left at.
enter_command_palette_keeps_index(a) ==
    [a EXCEPT !.command_items = CommandNames,
              !.state = "CommandPalette"]

enter_command_palette(a) ==
    [a EXCEPT !.command_items = CommandNames,
              !.selected_command_index = 0,
              !.state = "CommandPalette"]

quit(a) == [a EXCEPT !.running = FALSE]

\* Entering search that keeps waiting for a build already outstanding.
enter_search_mode_keeps_receiver(a, newid) ==
    [a EXCEPT !.state = "Indexing",
              !.search_query = <<>>,
              !.search_results = <<>>,
              !.selected_search_index = 0,
              !.indexing_receiver = IF @ # 0 THEN @ ELSE newid]

\* Entering search with the old results left in place.
enter_search_mode_keeps_results(a, newid) ==
    [a EXCEPT !.state = "Indexing",
              !.search_query = <<>>,
              !.indexing_receiver = newid]

enter_search_mode(a, newid) ==
    [a EXCEPT !.state = "Indexing",
              !.search_query = <<>>,
              !.search_results = <<>>,
              !.selected_search_index = 0,
              !.indexing_receiver = newid]

\* The search that keeps the old results when the engine fails or is missing.
perform_search_keeps_on_error(a, out) ==
    IF a.search_query = <<>>
    THEN [a EXCEPT !.search_results = <<>>, !.selected_search_index = 0]
    ELSE IF a.search_engine /\ out.ok
         THEN [a EXCEPT !.search_results = out.results,
                        !.selected_search_index = 0]
         ELSE a

perform_search(a, out) ==
    IF a.search_query = <<>>
    THEN [a EXCEPT !.search_results = <<>>, !.selected_search_index = 0]
    ELSE IF a.search_engine
         THEN IF out.ok
              THEN [a EXCEPT !.search_results = out.results,
                             !.selected_search_index = 0]
              ELSE [a EXCEPT !.search_results = <<>>]
         ELSE [a EXCEPT !.search_results = <<>>]

\* The lookup that leaves the old related files on screen while it runs.
get_related_files_keeps_files(a, newid) ==
    IF a.is_loading_related_files
    THEN a
    ELSE IF HasSelected(a)
         THEN [a EXCEPT !.is_loading_related_files = TRUE,
                        !.related_files_error = None,
                        !.related_files_receiver = newid]
         ELSE [a EXCEPT !.is_loading_related_files = FALSE,
                        !.related_files_error = None]

\* The same with the `else` branch forgotten: is_loading stays set when
\* nothing is selected.
get_related_files_keeps_loading(a, newid) ==
    IF a.is_loading_related_files
    THEN a
    ELSE IF HasSelected(a)
         THEN [a EXCEPT !.related_files = <<>>,
                        !.is_loading_related_files = TRUE,
                        !.related_files_error = None,
                        !.related_files_receiver = newid]
         ELSE [a EXCEPT !.related_files = <<>>,
                        !.is_loading_related_files = TRUE,
                        !.related_files_error = None]

get_related_files_for_selected(a, newid) ==
    IF a.is_loading_related_files
    THEN a
    ELSE IF HasSelected(a)
         THEN [a EXCEPT !.related_files = <<>>,
                        !.is_loading_related_files = TRUE,
                        !.related_files_error = None,
                        !.related_files_receiver = newid]
         ELSE [a EXCEPT !.related_files = <<>>,
                        !.is_loading_related_files = FALSE,
                        !.related_files_error = None]

\* The toggle that leaves the lookup to the next process().
toggle_detail_view_lazy(a, newid) ==
    [a EXCEPT !.detail_view_mode =
                  IF @ = "Preview" THEN "RelatedFiles" ELSE "Preview"]

\* The Tab / 'r' arm of handle_search_key.  (It also stores the index in
\* last_selected_index, a field that nothing reads.)
toggle_detail_view(a, newid) ==
    LET mode == IF a.detail_view_mode = "Preview" THEN "RelatedFiles" ELSE "Preview"
        b == [a EXCEPT !.detail_view_mode = mode]
    IN  IF mode = "RelatedFiles" /\ ~b.is_loading_related_files
        THEN get_related_files_for_selected(
                 [b EXCEPT !.related_files = <<>>,
                           !.related_files_error = None],
                 newid)
        ELSE b

\* The Up arm of handle_search_key.
select_up(a) ==
    IF a.selected_search_index > 0
    THEN [a EXCEPT !.selected_search_index = @ - 1]
    ELSE a

\* Down with the bound off by one.
select_down_past_end(a) ==
    IF a.selected_search_index + 1 <= Len(a.search_results)
    THEN [a EXCEPT !.selected_search_index = @ + 1]
    ELSE a

\* The Down arm of handle_search_key.
select_down(a) ==
    IF a.selected_search_index + 1 < Len(a.search_results)
    THEN [a EXCEPT !.selected_search_index = @ + 1]
    ELSE a

\* String::pop
Pop(q) == IF q = <<>> THEN q ELSE SubSeq(q, 1, Len(q) - 1)

\* Enter going to Preview whether or not a result is selected.
open_selected_result_unchecked(a) == [a EXCEPT !.state = "Preview"]

\* The Normal Enter arm of handle_search_key: open_file_in_editor blocks until
\* the editor exits, then the state is Preview.
open_selected_result(a) ==
    IF HasSelected(a) THEN [a EXCEPT !.state = "Preview"] ELSE a

\* The search keys with Esc leaving Search from the Editing mode too.
handle_search_key_esc_leaves(a, key, out, newid) ==
    IF a.input_mode = "Normal"
    THEN CASE key.code = "Esc" -> [a EXCEPT !.state = "Preview"]
           [] key.code = "Enter" -> open_selected_result(a)
           [] key.code \in {"Tab", "r"} -> toggle_detail_view(a, newid)
           [] key.code = "/" -> [a EXCEPT !.input_mode = "Editing"]
           [] key.code = "Up" -> select_up(a)
           [] key.code = "Down" -> select_down(a)
           [] OTHER -> a
    ELSE CASE key.code = "Esc" -> [a EXCEPT !.state = "Preview"]
           [] key.code = "Enter" ->
                  [perform_search(a, out) EXCEPT !.input_mode = "Normal"]
           [] key.code \in Chars ->
                  perform_search(
                      [a EXCEPT !.search_query = Append(@, key.code)], out)
           [] key.code = "Backspace" ->
                  perform_search([a EXCEPT !.search_query = Pop(@)], out)
           [] OTHER -> a

handle_search_key(a, key, out, newid) ==
    IF a.input_mode = "Normal"
    THEN CASE key.code = "Esc" -> [a EXCEPT !.state = "Preview"]
           [] key.code = "Enter" -> open_selected_result(a)
           [] key.code \in {"Tab", "r"} -> toggle_detail_view(a, newid)
           [] key.code = "/" -> [a EXCEPT !.input_mode = "Editing"]
           [] key.code = "Up" -> select_up(a)
           [] key.code = "Down" -> select_down(a)
           [] OTHER -> a
    ELSE CASE key.code = "Esc" -> [a EXCEPT !.input_mode = "Normal"]
           [] key.code = "Enter" ->
                  [perform_search(a, out) EXCEPT !.input_mode = "Normal"]
           [] key.code \in Chars ->
                  perform_search(
                      [a EXCEPT !.search_query = Append(@, key.code)], out)
           [] key.code = "Backspace" ->
                  perform_search([a EXCEPT !.search_query = Pop(@)], out)
           [] OTHER -> a

\* The default keys without the Ctrl+C arm.
handle_default_key_no_ctrl_c(a, key) ==
    CASE key.code \in {"Esc", "q"} -> quit(a)
      [] IsCtrl(key, "p") -> enter_command_palette(a)
      [] OTHER -> a

handle_default_key(a, key) ==
    CASE key.code \in {"Esc", "q"} \/ IsCtrl(key, "c") -> quit(a)
      [] IsCtrl(key, "p") -> enter_command_palette(a)
      [] OTHER -> a

\* The closure stored in command_items[i].action
\* The actions with Search left in Indexing, as Ctrl+S leaves it.
command_action_search_indexing(a, name, idxid, vecid) ==
    CASE name = "Search" -> enter_search_mode(a, idxid)
      [] name = "Index Vectors" -> enter_vector_indexing_mode(a, vecid)
      [] name = "Open Config Editor" -> [a EXCEPT !.state = "Preview"]
      [] name = "Quit" -> quit(a)

command_action(a, name, idxid, vecid) ==
    CASE name = "Search" -> [enter_search_mode(a, idxid) EXCEPT !.state = "Search"]
      [] name = "Index Vectors" -> enter_vector_indexing_mode(a, vecid)
      [] name = "Open Config Editor" -> [a EXCEPT !.state = "Preview"]
      [] name = "Quit" -> quit(a)

\* The palette whose Enter takes the entry above the selected one.
handle_command_palette_key_off_by_one(a, key, idxid, vecid) ==
    CASE key.code = "Esc" -> [a EXCEPT !.state = "Preview"]
      [] key.code = "Up" ->
             IF a.selected_command_index > 0
             THEN [a EXCEPT !.selected_command_index = @ - 1]
             ELSE a
      [] key.code = "Down" ->
             IF a.selected_command_index + 1 < Len(a.command_items)
             THEN [a EXCEPT !.selected_command_index = @ + 1]
             ELSE a
      [] key.code = "Enter" ->
             IF a.selected_command_index \in 1..Len(a.command_items)
             THEN command_action(a, a.command_items[a.selected_command_index],
                                 idxid, vecid)
             ELSE a
      [] OTHER -> a

handle_command_palette_key(a, key, idxid, vecid) ==
    CASE key.code = "Esc" -> [a EXCEPT !.state = "Preview"]
      [] key.code = "Up" ->
             IF a.selected_command_index > 0
             THEN [a EXCEPT !.selected_command_index = @ - 1]
             ELSE a
      [] key.code = "Down" ->
             IF a.selected_command_index + 1 < Len(a.command_items)
             THEN [a EXCEPT !.selected_command_index = @ + 1]
             ELSE a
      [] key.code = "Enter" ->
             IF a.selected_command_index < Len(a.command_items)
             THEN command_action(a, a.command_items[a.selected_command_index + 1],
                                 idxid, vecid)
             ELSE a
      [] OTHER -> a

handle_key(a, key, out, idxid, vecid, rfid) ==
    CASE a.state = "Search" -> handle_search_key(a, key, out, rfid)
      [] a.state = "CommandPalette" -> handle_command_palette_key(a, key, idxid, vecid)
      [] OTHER -> handle_default_key(a, key)

\* The key dispatch at the top of the loop body of App::run (Ctrl+E apart).
dispatch_key(a, key, out, idxid, vecid, rfid) ==
    IF IsCtrl(key, "s")
    THEN enter_search_mode(a, idxid)
    ELSE handle_key(a, key, out, idxid, vecid, rfid)

\* process() that looks up without recording the path looked up.
process_forgets_memo(a, newid) ==
    IF /\ a.state = "Search"
       /\ a.detail_view_mode = "RelatedFiles"
       /\ ~a.is_loading_related_files
       /\ a.search_results # <<>>
    THEN IF HasSelected(a)
            /\ a.current_related_document_path # Some(Selected(a).path)
         THEN get_related_files_for_selected(a, newid)
         ELSE a
    ELSE a

\* The first half of App::process: the memo decides whether to look up.
process(a, newid) ==
    IF /\ a.state = "Search"
       /\ a.detail_view_mode = "RelatedFiles"
       /\ ~a.is_loading_related_files
       /\ a.search_results # <<>>
    THEN LET should_load ==
                 IF HasSelected(a)
                 THEN IF a.current_related_document_path # Some(Selected(a).path)
                      THEN Some(Selected(a).path)
                      ELSE None
                 ELSE None
         IN  IF should_load # None
             THEN [get_related_files_for_selected(a, newid)
                      EXCEPT !.current_related_document_path = should_load]
             ELSE a
    ELSE a

\* try_recv on a one-message channel: what the loop sees of a worker.
Empty == [kind |-> "Empty"]
Disconnected == [kind |-> "Disconnected"]
Received(payload) == [kind |-> "Ok", payload |-> payload]

\* The drain that takes "not ready yet" for the end of the request.
process_related_files_receiver_eager(a, recv) ==
    IF a.related_files_receiver = 0
    THEN a
    ELSE CASE recv.kind = "Ok" ->
                  LET b == IF recv.payload.ok
                           THEN IF recv.payload.results = <<>>
                                THEN [a EXCEPT !.related_files_error =
                                          Some("No related documents found that meet the similarity threshold.")]
                                ELSE [a EXCEPT !.related_files = recv.payload.results,
                                               !.related_files_error = None]
                           ELSE [a EXCEPT !.related_files_error = Some(recv.payload.error)]
                  IN  [b EXCEPT !.is_loading_related_files = FALSE,
                                !.related_files_receiver = 0]
           [] OTHER ->
                  [a EXCEPT !.is_loading_related_files = FALSE,
                            !.related_files_receiver = 0,
                            !.related_files_error =
                                Some("Failed to process related files request")]

\* The drain that stores a completion only while the state is Search.
process_related_files_receiver_in_search(a, recv) ==
    IF a.related_files_receiver = 0
    THEN a
    ELSE CASE recv.kind = "Ok" ->
                  LET b == IF a.state # "Search"
                           THEN a
                           ELSE IF recv.payload.ok
                           THEN IF recv.payload.results = <<>>
                                THEN [a EXCEPT !.related_files_error =
                                          Some("No related documents found that meet the similarity threshold.")]
                                ELSE [a EXCEPT !.related_files = recv.payload.results,
                                               !.related_files_error = None]
                           ELSE [a EXCEPT !.related_files_error = Some(recv.payload.error)]
                  IN  [b EXCEPT !.is_loading_related_files = FALSE,
                                !.related_files_receiver = 0]
           [] recv.kind = "Empty" -> a
           [] recv.kind = "Disconnected" ->
                  [a EXCEPT !.is_loading_related_files = FALSE,
                            !.related_files_receiver = 0,
                            !.related_files_error =
                                Some("Failed to process related files request")]

\* The drain that acts on a message only, as the index drain does.
process_related_files_receiver_ok_only(a, recv) ==
    IF a.related_files_receiver = 0
    THEN a
    ELSE CASE recv.kind = "Ok" ->
                  LET b == IF recv.payload.ok
                           THEN IF recv.payload.results = <<>>
                                THEN [a EXCEPT !.related_files_error =
                                          Some("No related documents found that meet the similarity threshold.")]
                                ELSE [a EXCEPT !.related_files = recv.payload.results,
                                               !.related_files_error = None]
                           ELSE [a EXCEPT !.related_files_error = Some(recv.payload.error)]
                  IN  [b EXCEPT !.is_loading_related_files = FALSE,
                                !.related_files_receiver = 0]
           [] OTHER -> a

process_related_files_receiver(a, recv) ==
    IF a.related_files_receiver = 0
    THEN a
    ELSE CASE recv.kind = "Ok" ->
                  LET b == IF recv.payload.ok
                           THEN IF recv.payload.results = <<>>
                                THEN [a EXCEPT !.related_files_error =
                                          Some("No related documents found that meet the similarity threshold.")]
                                ELSE [a EXCEPT !.related_files = recv.payload.results,
                                               !.related_files_error = None]
                           ELSE [a EXCEPT !.related_files_error = Some(recv.payload.error)]
                  IN  [b EXCEPT !.is_loading_related_files = FALSE,
                                !.related_files_receiver = 0]
           [] recv.kind = "Empty" -> a
           [] recv.kind = "Disconnected" ->
                  [a EXCEPT !.is_loading_related_files = FALSE,
                            !.related_files_receiver = 0,
                            !.related_files_error =
                                Some("Failed to process related files request")]

\* The scan drain that leaves Scanning only on a successful scan.
drain_scan_ok_only(a, recv) ==
    IF ~a.scanning_receiver
    THEN a
    ELSE CASE recv.kind = "Ok" ->
                  IF recv.payload.ok
                  THEN [a EXCEPT !.scan_result = Some("files"),
                                 !.scan_summary = Some("summary"),
                                 !.state = "Preview",
                                 !.scanning_receiver = FALSE]
                  ELSE [a EXCEPT !.scanning_receiver = FALSE]
           [] recv.kind = "Empty" -> a
           [] recv.kind = "Disconnected" -> [a EXCEPT !.scanning_receiver = FALSE]

\* The scan drain of App::run.
drain_scan(a, recv) ==
    IF ~a.scanning_receiver
    THEN a
    ELSE CASE recv.kind = "Ok" ->
                  LET b == IF recv.payload.ok
                           THEN [a EXCEPT !.scan_result = Some("files"),
                                          !.scan_summary = Some("summary")]
                           ELSE a
                  IN  [b EXCEPT !.state = "Preview", !.scanning_receiver = FALSE]
           [] recv.kind = "Empty" -> a
           [] recv.kind = "Disconnected" -> [a EXCEPT !.scanning_receiver = FALSE]

\* The index drain that sets the loop running again.
drain_index_resumes(a, recv) ==
    IF a.indexing_receiver = 0
    THEN a
    ELSE IF recv.kind = "Ok"
         THEN [a EXCEPT !.state = "Search", !.indexing_receiver = 0,
                        !.running = TRUE]
         ELSE a

\* The index drain that forgets to leave Indexing.
drain_index_keeps_state(a, recv) ==
    IF a.indexing_receiver = 0
    THEN a
    ELSE IF recv.kind = "Ok"
         THEN [a EXCEPT !.indexing_receiver = 0]
         ELSE a

\* The index drain of App::run.
drain_index(a, recv) ==
    IF a.indexing_receiver = 0
    THEN a
    ELSE IF recv.kind = "Ok"
         THEN [a EXCEPT !.state = "Search", !.indexing_receiver = 0]
         ELSE a

\* The vector-index drain that clears the handle of a disconnected channel
\* and stays in IndexingVectors.
drain_vector_stays(a, recv) ==
    IF a.vector_indexing_receiver = 0
    THEN a
    ELSE CASE recv.kind = "Ok" ->
                  IF recv.payload = "SUCCESS"
                  THEN [a EXCEPT !.vector_indexing_status =
                                     Some("Vector indexing completed successfully!"),
                                 !.vector_indexing_complete = TRUE,
                                 !.vector_indexing_success_time = Some(0)]
                  ELSE IF recv.payload = "Error"
                       THEN [a EXCEPT !.vector_indexing_status = Some(recv.payload),
                                      !.vector_indexing_complete = TRUE,
                                      !.vector_indexing_success_time = Some(0)]
                       ELSE [a EXCEPT !.vector_indexing_status = Some(recv.payload)]
           [] recv.kind = "Empty" -> a
           [] recv.kind = "Disconnected" ->
                  [a EXCEPT !.vector_indexing_receiver = 0]

\* The vector-index drain of App::run, up to the grace-period check.
drain_vector(a, recv) ==
    IF a.vector_indexing_receiver = 0
    THEN a
    ELSE CASE recv.kind = "Ok" ->
                  IF recv.payload = "SUCCESS"
                  THEN [a EXCEPT !.vector_indexing_status =
                                     Some("Vector indexing completed successfully!"),
                                 !.vector_indexing_complete = TRUE,
                                 !.vector_indexing_success_time = Some(0)]
                  ELSE IF recv.payload = "Error"
                       THEN [a EXCEPT !.vector_indexing_status = Some(recv.payload),
                                      !.vector_indexing_complete = TRUE,
                                      !.vector_indexing_success_time = Some(0)]
                       ELSE [a EXCEPT !.vector_indexing_status = Some(recv.payload)]
           [] recv.kind = "Empty" -> a
           [] recv.kind = "Disconnected" ->
                  [a EXCEPT !.vector_indexing_receiver = 0, !.state = "Preview"]

\* vector_indexing_success_time holds the seconds elapsed since it was set.
grace_check(a) ==
    IF a.vector_indexing_success_time # None
       /\ a.vector_indexing_success_time[1] >= GRACE_SECS
    THEN [a EXCEPT !.state = "Preview", !.vector_indexing_success_time = None]
    ELSE a

\* The vector-index block run in every state.
vector_step_any_state(a, recv) == grace_check(drain_vector(a, recv))

\* The IndexingVectors block of App::run.
vector_step(a, recv) ==
    IF a.state = "IndexingVectors"
    THEN grace_check(drain_vector(a, recv))
    ELSE a

----------------------------------------------------------------------------
(* Workers and channels.  Each table has one slot per worker that can be   *)
(* alive at a time; a slot is "free" until a worker is spawned on it and   *)
(* again once the worker has ended and its receiver is gone.  A            *)
(* one-message worker is "running" until it sends its message ("ok",       *)
(* "err") or dies without sending ("dead").  A receiver field of App holds *)
(* the slot it listens on.                                                 *)
(*                                                                         *)
(* The loop sees a worker only through try_recv on the worker's own        *)
(* channel, so a worker's step is scheduled right before the loop step     *)
(* that reads that channel: every order of a send and the loop's other     *)
(* steps leaves the loop in the same state as one of the orders kept.      *)

FreeWorker == [st |-> "free", path |-> 0]
FreeStream == [st |-> "free", q |-> <<>>]

\* The slot the next spawned worker gets; beyond the table when it is full.
NewId(ws) ==
    IF \E i \in DOMAIN ws : ws[i].st = "free"
    THEN CHOOSE i \in DOMAIN ws :
             ws[i].st = "free" /\ \A j \in DOMAIN ws : ws[j].st = "free" => i <= j
    ELSE Len(ws) + 1

\* A worker that has ended and has no receiver left gives its slot back.
Tidy(ws, rx) ==
    [i \in DOMAIN ws |->
        IF i # rx /\ ws[i].st \notin {"free", "running"} THEN FreeWorker ELSE ws[i]]

\* The vector-index channel is read in IndexingVectors only, and that state
\* is entered only by enter_vector_indexing_mode, which replaces the
\* receiver: once the loop has left IndexingVectors the worker is never
\* heard again.  Such a worker is an "orphan" while its last message
\* (SUCCESS or Error) may still be unsent, and gives its slot back otherwise.
OrphanStream == [st |-> "orphan", q |-> <<>>]

Listening(a, i) == a.state = "IndexingVectors" /\ a.vector_indexing_receiver = i

\* What was sent and not received stays in the channel for as long as the
\* App holds the receiver.
Kept(ws, a, i) == IF a.vector_indexing_receiver = i THEN ws[i].q ELSE <<>>

TidyStreams(ws, a) ==
    [i \in DOMAIN ws |->
        IF Listening(a, i) THEN ws[i]
        ELSE IF ws[i].st \in {"start", "processing", "orphan"}
             THEN [OrphanStream EXCEPT !.q = Kept(ws, a, i)]
             ELSE [FreeStream EXCEPT !.q = Kept(ws, a, i)]]

\* The slot the next vector-index worker gets: a free one, else the oldest
\* orphan's.
NewStream(ws) ==
    IF \E i \in DOMAIN ws : ws[i].st = "free"
    THEN NewId(ws)
    ELSE 1

Alive(ws) == {i \in DOMAIN ws : ws[i].st # "free"}

try_recv(st, okPayload, errPayload) ==
    CASE st = "running" -> Empty
      [] st = "ok" -> Received(okPayload)
      [] st = "err" -> Received(errPayload)
      [] OTHER -> Disconnected

ScanRecv == try_recv(scan_worker, [ok |-> TRUE], [ok |-> FALSE])

IndexRecv(i) == try_recv(idx_workers[i].st, "unit", "unit")

\* "none" is the lookup that found no document above the threshold.
RelatedRecv(i) ==
    IF rf_workers[i].st = "none"
    THEN Received([ok |-> TRUE, results |-> <<>>])
    ELSE try_recv(rf_workers[i].st,
                  [ok |-> TRUE, results |-> RelatedOf(rf_workers[i].path)],
                  [ok |-> FALSE, error |-> "lookup failed"])

\* The vector-index channel carries a stream: q is what was sent and not yet
\* received, and the sender is gone once the thread has "exited".
VectorRecv(i) ==
    IF vec_workers[i].q # <<>> THEN Received(Head(vec_workers[i].q))
    ELSE IF vec_workers[i].st = "exited" THEN Disconnected
    ELSE Empty

\* The worker tables after a method left `a2` behind: a receiver holding the
\* next free slot says the method spawned a worker on it.  A worker whose
\* receiver was replaced keeps running.
SpawnedIndex(a2) == a2.indexing_receiver = NewId(idx_workers)
SpawnedVector(a2) == app.state # "IndexingVectors" /\ a2.state = "IndexingVectors"
SpawnedRelated(a2) == a2.related_files_receiver = NewId(rf_workers)

SpawnIndex(a2) ==
    Tidy(IF SpawnedIndex(a2)
         THEN [idx_workers EXCEPT ![a2.indexing_receiver] =
                   [st |-> "running", path |-> 0]]
         ELSE idx_workers,
         a2.indexing_receiver)

SpawnVector(a2) ==
    TidyStreams(IF SpawnedVector(a2)
                THEN [vec_workers EXCEPT ![a2.vector_indexing_receiver] =
                          [st |-> "start", q |-> <<>>]]
                ELSE vec_workers,
                a2)

SpawnRelated(a2) ==
    Tidy(IF SpawnedRelated(a2)
         THEN [rf_workers EXCEPT ![a2.related_files_receiver] =
                   [st |-> "running", path |-> Selected(a2).path]]
         ELSE rf_workers,
         a2.related_files_receiver)

\* Whether the handler of `key` calls SearchEngine::search.
Searches(a, key) ==
    /\ a.state = "Search"
    /\ a.input_mode = "Editing"
    /\ a.search_engine
    /\ ~IsCtrl(key, "s")
    /\ \/ key.code = "Enter" /\ a.search_query # <<>>
       \/ key.code \in Chars
       \/ key.code = "Backspace" /\ Len(a.search_query) > 1

NoSearch == [ok |-> FALSE, results |-> <<>>]

\* The worker tables have a slot for every worker `a2` listens to.
WithinBounds(a2) ==
    /\ a2.indexing_receiver <= MaxIndexRuns
    /\ a2.vector_indexing_receiver <= MaxVectorRuns
    /\ a2.related_files_receiver <= MaxLookups

----------------------------------------------------------------------------
(* History variables.  They record what happened and decide nothing.       *)

\* key_ctx: the state and input mode the key of this iteration was handled
\* in, and the call of SearchEngine::search its handler made, if any.
NoCtx == [state |-> "none", input_mode |-> "none", call |-> None, opened |-> None]

\* Whether the handler of `key` calls open_file_in_editor.
Opens(a, key) ==
    /\ a.state = "Search"
    /\ a.input_mode = "Normal"
    /\ key.code = "Enter"
    /\ HasSelected(a)

\* The query perform_search runs with: search_query after the handler's edit.
SearchedQuery(a, key) ==
    CASE key.code \in Chars -> Append(a.search_query, key.code)
      [] key.code = "Backspace" -> Pop(a.search_query)
      [] OTHER -> a.search_query

CtxAfterKey(a, key, out) ==
    [state |-> a.state,
     input_mode |-> a.input_mode,
     call |-> IF Searches(a, key)
              THEN Some([query |-> SearchedQuery(a, key), out |-> out])
              ELSE None,
     opened |-> IF Opens(a, key) THEN Some(Selected(a).path) ELSE None]

\* iter_event: "none" when the poll timed out, "entered_related" when the key
\* switched the detail view to RelatedFiles, "key" for any other key.
KeyEvent(a, a2) ==
    IF a.detail_view_mode = "Preview" /\ a2.detail_view_mode = "RelatedFiles"
    THEN "entered_related"
    ELSE "key"

\* At the end of the iteration iter_event is "related_applied" when the drain
\* received a related-files completion, "none" otherwise.
RecvEvent(a) ==
    IF a.related_files_receiver # 0 /\ RelatedRecv(a.related_files_receiver).kind = "Ok"
    THEN "related_applied"
    ELSE "none"

\* epoch: the selection was settled by `kind` and no key other than Tab has
\* been handled since; `lookups` related-files workers were spawned since
\* (counted up to 2).
\*   "tab":    Tab pressed in Search/Normal in the Preview view with no lookup
\*             loading; `tabs` counts that Tab and the Tabs after it (up to 3).
\*   "updown": Up or Down in Search/Normal in the RelatedFiles view moved the
\*             selection to a document with another path.
NoEpoch == [kind |-> "none", tabs |-> 0, lookups |-> 0]

Counted(n, spawned) == IF spawned /\ n < 2 THEN n + 1 ELSE n

EpochAfterKey(a, a2, key, spawned) ==
    IF a.state = "Search" /\ a.input_mode = "Normal"
    THEN CASE key = Key("Tab") ->
                  IF epoch.kind = "tab" /\ epoch.tabs < 3
                  THEN [epoch EXCEPT !.tabs = @ + 1,
                                     !.lookups = Counted(@, spawned)]
                  ELSE IF a.detail_view_mode = "Preview"
                          /\ ~a.is_loading_related_files
                       THEN [kind |-> "tab", tabs |-> 1,
                             lookups |-> Counted(0, spawned)]
                       ELSE NoEpoch
           [] key \in {Key("Up"), Key("Down")} ->
                  IF /\ a.detail_view_mode = "RelatedFiles"
                     /\ HasSelected(a) /\ HasSelected(a2)
                     /\ Selected(a).path # Selected(a2).path
                  THEN [kind |-> "updown", tabs |-> 0, lookups |-> 0]
                  ELSE NoEpoch
           [] OTHER -> NoEpoch
    ELSE NoEpoch

EpochAfterProcess(spawned) ==
    IF epoch.kind = "none" THEN epoch
    ELSE [epoch EXCEPT !.lookups = Counted(@, spawned)]

\* boot: "start" before run, "scanning" once the scan worker is spawned,
\* "scanned" / "scan_failed" once its Ok / Err is drained, "indexing" after
\* Ctrl+S pressed then, "search" once that index build is drained; "off" from
\* the first key or channel event that leaves this path.
BootAfterKey(key) ==
    IF boot = "scanned" /\ key = Ctrl("s") THEN "indexing" ELSE "off"

BootAfterScan(a, recv) ==
    IF boot = "scanning" /\ a.scanning_receiver
    THEN CASE recv.kind = "Empty" -> boot
           [] recv.kind = "Disconnected" -> "off"
           [] recv.kind = "Ok" ->
                  IF recv.payload.ok THEN "scanned" ELSE "scan_failed"
    ELSE boot

BootAfterIndex(a, recv) ==
    IF boot = "indexing" /\ a.indexing_receiver # 0 /\ recv.kind = "Ok"
    THEN "search"
    ELSE boot

----------------------------------------------------------------------------
(* The state machine. *)

Init ==
    /\ app \in {DefaultApp, set_search_engine(DefaultApp)}
    /\ pc = "start"
    /\ key_event = NoKey
    /\ key_ctx = NoCtx
    /\ scan_worker = "free"
    /\ idx_workers = [i \in 1..MaxIndexRuns |-> FreeWorker]
    /\ vec_workers = [i \in 1..MaxVectorRuns |-> FreeStream]
    /\ rf_workers = [i \in 1..MaxLookups |-> FreeWorker]
    /\ iter_event = "none"
    /\ epoch = NoEpoch
    /\ boot = "start"

\* App::run up to the loop: the scan worker is spawned.
Run ==
    /\ pc = "start"
    /\ app' = [app EXCEPT !.scanning_receiver = TRUE,
                          !.state = "Scanning",
                          !.running = TRUE]
    /\ scan_worker' = "running"
    /\ pc' = "poll"
    /\ boot' = "scanning"
    /\ UNCHANGED <<key_event, key_ctx, idx_workers, vec_workers, rf_workers, iter_event, epoch>>

\* `while self.running` fails: run returns.
LoopExit ==
    /\ pc = "poll"
    /\ ~app.running
    /\ pc' = "done"
    /\ UNCHANGED <<app, key_event, key_ctx, workers, history>>

\* event::poll times out: no key in this iteration.
PollTimeout ==
    /\ pc = "poll"
    /\ app.running
    /\ pc' = "vector"
    /\ key_event' = NoKey
    /\ key_ctx' = NoCtx
    /\ iter_event' = "none"
    /\ UNCHANGED <<app, workers, epoch, boot>>

\* A key press of K other than Ctrl+E: dispatched, then the drains follow.
\* The search engine's answer is an input, one of `outs`, where the handler
\* searches; the query typed is at most `qlen` long.
PollKeyFrom(K, qlen, outs) ==
    /\ pc = "poll"
    /\ app.running
    /\ \E key \in K :
       \E out \in IF Searches(app, key) THEN outs ELSE {NoSearch} :
          LET a2 == dispatch_key(app, key, out, NewId(idx_workers),
                                 NewStream(vec_workers), NewId(rf_workers))
          IN  /\ WithinBounds(a2)
              /\ Len(a2.search_query) <= qlen
              /\ app' = a2
              /\ key_event' = key
              /\ key_ctx' = CtxAfterKey(app, key, out)
              /\ idx_workers' = SpawnIndex(a2)
              /\ vec_workers' = SpawnVector(a2)
              /\ rf_workers' = SpawnRelated(a2)
              /\ iter_event' = KeyEvent(app, a2)
              /\ epoch' = EpochAfterKey(app, a2, key, SpawnedRelated(a2))
              /\ boot' = BootAfterKey(key)
    /\ pc' = "vector"
    /\ UNCHANGED scan_worker

PollKeyWithin(K, qlen) == PollKeyFrom(K, qlen, SearchOutcomes)

PollKey(K) == PollKeyWithin(K, MaxQueryLen)

\* Ctrl+E handed to the key handlers like any other key.
PollCtrlE_dispatched == PollKey({Ctrl("e")})

\* Ctrl+E: the config editor runs in the foreground, then `continue`.
PollCtrlE ==
    /\ pc = "poll"
    /\ app.running
    /\ key_event' = Ctrl("e")
    /\ key_ctx' = [CtxAfterKey(app, Ctrl("e"), NoSearch) EXCEPT !.call = None]
    /\ UNCHANGED <<app, pc, workers, history>>

StepVector ==
    /\ pc = "vector"
    /\ LET i == app.vector_indexing_receiver
           draining == app.state = "IndexingVectors" /\ i # 0
           recv == IF i # 0 THEN VectorRecv(i) ELSE Empty
           taken == IF draining /\ recv.kind = "Ok"
                    THEN [vec_workers EXCEPT ![i].q = Tail(@)]
                    ELSE vec_workers
       IN  /\ app' = vector_step(app, recv)
           /\ vec_workers' = TidyStreams(taken, app')
    /\ pc' = "scan"
    /\ key_event' = NoKey
    /\ key_ctx' = NoCtx
    /\ UNCHANGED <<scan_worker, idx_workers, rf_workers, history>>

StepScan ==
    /\ pc = "scan"
    /\ app' = drain_scan(app, ScanRecv)
    /\ scan_worker' = IF ~app'.scanning_receiver /\ scan_worker # "running"
                      THEN "free"
                      ELSE scan_worker
    /\ boot' = BootAfterScan(app, ScanRecv)
    /\ pc' = "index"
    /\ UNCHANGED <<key_event, key_ctx, idx_workers, vec_workers, rf_workers, iter_event, epoch>>

StepIndex ==
    /\ pc = "index"
    /\ LET i == app.indexing_receiver
       IN  IF i = 0
           THEN UNCHANGED <<app, idx_workers, boot>>
           ELSE /\ app' = drain_index(app, IndexRecv(i))
                /\ idx_workers' = Tidy(idx_workers, app'.indexing_receiver)
                /\ boot' = BootAfterIndex(app, IndexRecv(i))
    /\ pc' = "process"
    /\ UNCHANGED <<key_event, key_ctx, scan_worker, vec_workers, rf_workers, iter_event, epoch>>

StepProcess ==
    /\ pc = "process"
    /\ LET a2 == process(app, NewId(rf_workers))
       IN  /\ WithinBounds(a2)
           /\ app' = a2
           /\ rf_workers' = SpawnRelated(a2)
           /\ epoch' = EpochAfterProcess(SpawnedRelated(a2))
    /\ pc' = "recv"
    /\ UNCHANGED <<key_event, key_ctx, scan_worker, idx_workers, vec_workers, iter_event, boot>>

\* The end of App::process, then the frame is drawn and the loop starts over.
StepRecv ==
    /\ pc = "recv"
    /\ LET i == app.related_files_receiver
       IN  IF i = 0
           THEN UNCHANGED <<app, rf_workers>>
           ELSE /\ app' = process_related_files_receiver(app, RelatedRecv(i))
                /\ rf_workers' = Tidy(rf_workers, app'.related_files_receiver)
    /\ pc' = "poll"
    /\ iter_event' = RecvEvent(app)
    /\ UNCHANGED <<key_event, key_ctx, scan_worker, idx_workers, vec_workers, epoch, boot>>

----------------------------------------------------------------------------
(* The worker threads. *)

\* The scan thread sends Ok or Err, or dies in the scanner.
ScanWorker ==
    /\ pc = "scan"
    /\ scan_worker = "running"
    /\ scan_worker' \in {"ok", "err", "dead"}
    /\ UNCHANGED <<app, pc, key_event, key_ctx, idx_workers, vec_workers, rf_workers, history>>

\* An index thread sends () whatever happened, or dies in the indexer.  The
\* send of a thread whose receiver was replaced fails and is ignored.
IndexWorker ==
    /\ pc = "index"
    /\ \E i \in DOMAIN idx_workers, out \in {"ok", "dead"} :
          /\ idx_workers[i].st = "running"
          /\ idx_workers' =
                 Tidy([idx_workers EXCEPT ![i].st = out], app.indexing_receiver)
    /\ UNCHANGED <<app, pc, key_event, key_ctx, scan_worker, vec_workers, rf_workers, history>>

\* A vector-index thread the loop listens to: a failure before the indexing
\* starts ends it with an Error message, or with none when
\* Runtime::new().unwrap() panics; otherwise it reports progress, then
\* SUCCESS or Error, then exits.
VectorWorker ==
    /\ pc = "vector"
    /\ \E i \in DOMAIN vec_workers :
          LET w == vec_workers[i]
              Becomes(v) == vec_workers' = [vec_workers EXCEPT ![i] = v]
          IN  /\ Listening(app, i)
              /\ \/ /\ w.st = "start"
                    /\ \/ Becomes([st |-> "processing",
                                   q |-> Append(w.q, "Processing documents...")])
                       \/ Becomes([st |-> "finishing", q |-> Append(w.q, "Error")])
                       \/ Becomes([w EXCEPT !.st = "exited"])
                 \/ /\ w.st = "processing"
                    /\ \E msg \in {"SUCCESS", "Error"} :
                          Becomes([st |-> "finishing", q |-> Append(w.q, msg)])
                 \/ /\ w.st = "finishing"
                    /\ Becomes([w EXCEPT !.st = "exited"])
    /\ UNCHANGED <<app, pc, key_event, key_ctx, scan_worker, idx_workers, rf_workers, history>>

\* A related-files thread sends Ok(list), the list possibly empty ("none"),
\* or Err(text), or dies when Runtime::new().unwrap() panics.
RelatedWorkerAt(i) ==
    /\ pc = "recv"
    /\ \E out \in {"ok", "none", "err", "dead"} :
          /\ rf_workers[i].st = "running"
          /\ rf_workers' =
                 Tidy([rf_workers EXCEPT ![i].st = out], app.related_files_receiver)
    /\ UNCHANGED <<app, pc, key_event, key_ctx, scan_worker, idx_workers, vec_workers, history>>

RelatedWorker == \E i \in DOMAIN rf_workers : RelatedWorkerAt(i)

\* A second passes on the clock that success_time.elapsed() reads.  The
\* clock is read by the grace-period check only, so the seconds are counted
\* right before that check and only in the state in which it runs.
TimePasses ==
    /\ pc = "vector"
    /\ app.state = "IndexingVectors"
    /\ app.vector_indexing_success_time # None
    /\ app.vector_indexing_success_time[1] < GRACE_SECS
    /\ app' = [app EXCEPT !.vector_indexing_success_time = Some(@[1] + 1)]
    /\ UNCHANGED <<pc, key_event, key_ctx, workers, history>>

\* One iteration of the loop of App::run, step by step.
Loop ==
    \/ LoopExit
    \/ PollTimeout
    \/ PollCtrlE
    \/ StepVector
    \/ StepScan
    \/ StepIndex
    \/ StepProcess
    \/ StepRecv

\* The application driven by the search keys: no palette is opened, so no
\* vector indexing is started.
SearchNext ==
    \/ Run
    \/ Loop
    \/ PollKey(SearchKeys)
    \/ ScanWorker
    \/ IndexWorker
    \/ RelatedWorker

SpecSearch == Init /\ [][SearchNext]_vars

\* The application, started with a search engine, driven by the command
\* palette and the quit keys: the detail view is never switched, so no
\* related-files lookup is started.
PaletteNext ==
    \/ Run
    \/ Loop
    \/ PollKeyFrom(PaletteKeys, MaxQueryLen, PaletteOutcomes)
    \/ ScanWorker
    \/ IndexWorker
    \/ VectorWorker
    \/ TimePasses

\* App::new() followed by set_search_engine.
InitConfigured == Init /\ app.search_engine

SpecPalette == InitConfigured /\ [][PaletteNext]_vars

\* The application driven by the typing of a query.
TypingNext ==
    \/ Run
    \/ Loop
    \/ PollKeyWithin(TypingKeys, MaxTyped)
    \/ ScanWorker
    \/ IndexWorker

SpecTyping == Init /\ [][TypingNext]_vars

\* The keys that reach every channel: the palette and its entries (Ctrl+P,
\* Down, Enter), a query typed and searched ('r', Enter), the detail view
\* switched ('r') and Search left for Preview (Enter on a result).
ChannelKeys == {Key("r"), Key("Enter"), Key("Down"), Ctrl("p")}

\* At most MaxAlive index workers and MaxAlive related-files workers are
\* alive at a time.
FewAlive ==
    /\ Cardinality(Alive(idx_workers)) <= MaxAlive
    /\ Cardinality(Alive(rf_workers)) <= MaxAlive

\* The application, started with a search engine, with every worker; no
\* index build and no lookup is started beyond FewAlive.
ChannelNext ==
    \/ Run
    \/ LoopExit
    \/ PollTimeout
    \/ PollCtrlE
    \/ StepVector
    \/ StepScan
    \/ StepIndex
    \/ StepProcess /\ FewAlive'
    \/ StepRecv
    \/ PollKeyFrom(ChannelKeys, MaxQueryLen, PaletteOutcomes) /\ FewAlive'
    \/ ScanWorker
    \/ IndexWorker
    \/ VectorWorker
    \/ RelatedWorker
    \/ TimePasses

SpecChannels == InitConfigured /\ [][ChannelNext]_vars

\* The keys of a lookup and of what may be pressed while it runs: Ctrl+S
\* (index, then Search), 'r' (typed, and the view switched), Enter (the
\* query searched, a result opened), Esc (Editing left, Search left).
LookupKeys == {Ctrl("s"), Key("r"), Key("Enter"), Key("Esc")}

LookupNext ==
    \/ Run
    \/ Loop
    \/ PollKeyFrom(LookupKeys, MaxQueryLen, PaletteOutcomes)
    \/ ScanWorker
    \/ IndexWorker
    \/ RelatedWorker

\* The loop goes on: `while self.running` is evaluated, a poll ends with a
\* key or a timeout, and each step of the iteration is taken.  Ctrl+E is not
\* pressed forever.
LoopFairness ==
    /\ WF_vars(LoopExit)
    /\ WF_vars(PollTimeout \/ PollKeyFrom(LookupKeys, MaxQueryLen, PaletteOutcomes))
    /\ WF_vars(StepVector)
    /\ WF_vars(StepScan)
    /\ WF_vars(StepIndex)
    /\ WF_vars(StepProcess)
    /\ WF_vars(StepRecv)

\* A related-files thread runs by itself and ends, whatever the loop does;
\* its step is enabled once in every iteration, hence the strong fairness.
WorkerFairness == \A i \in 1..MaxLookups : SF_vars(RelatedWorkerAt(i))

SpecLookupFair ==
    InitConfigured /\ [][LookupNext]_vars /\ LoopFairness /\ WorkerFairness

\* The keys of the command palette's menu.
MenuKeys == {Ctrl("p"), Key("Up"), Key("Down"), Key("Enter"), Key("Esc")}

\* The application, started with a search engine, driven by the menu keys:
\* the palette is opened, walked and left, and each of its entries invoked.
MenuNext ==
    \/ Run
    \/ Loop
    \/ PollKeyFrom(MenuKeys, MaxQueryLen, PaletteOutcomes)
    \/ ScanWorker
    \/ IndexWorker
    \/ VectorWorker
    \/ TimePasses

SpecMenu == InitConfigured /\ [][MenuNext]_vars

----------------------------------------------------------------------------
(* The claims. *)

IndexValid(a) ==
    \/ a.selected_search_index < Len(a.search_results)
    \/ a.search_results = <<>> /\ a.selected_search_index = 0

Receiver == app.related_files_receiver

\* C1: in every reachable state is_loading_related_files is true exactly
\* when related_files_receiver holds a handle, and a handle held is the
\* channel of a lookup whose completion or disconnection is not yet drained.
C1_LoadingIffReceiver ==
    /\ app.is_loading_related_files <=> Receiver # 0
    /\ Receiver # 0 => rf_workers[Receiver].st # "free"

C1_Witness ==
    /\ pc = "poll"
    /\ app.is_loading_related_files
    /\ Receiver # 0
    /\ rf_workers[Receiver].st = "running"

\* C2: in every reachable state selected_search_index is a valid index into
\* search_results, or search_results is empty and the index is 0.
C2_IndexAlwaysValid == IndexValid(app)

\* C3: from Search/Normal in the Preview view, the keys Tab, Tab, Tab with
\* the selection unchanged, with any ticks and completions between them,
\* issue at most one related-files lookup.
C3_ToggleAtMostOneLookup == epoch.kind = "tab" => epoch.lookups <= 1

\* C4: at most one related-files worker spawned by the loop has an undrained
\* completion at any time, and it is the one the loop listens to: no key and
\* no tick issues a second lookup while is_loading_related_files is true.
C4_OneLookupOutstanding ==
    /\ Cardinality(Alive(rf_workers)) <= 1
    /\ Alive(rf_workers) \subseteq {Receiver}

C4_Witness ==
    /\ pc = "vector"
    /\ key_event = Key("Down")
    /\ app.state = "Search"
    /\ app.detail_view_mode = "RelatedFiles"
    /\ app.is_loading_related_files
    /\ app.selected_search_index = 1
    /\ Alive(rf_workers) = {Receiver}
    /\ rf_workers[Receiver].path # Selected(app).path

\* C5: in Search with the RelatedFiles view, once Up or Down has moved the
\* selection to a document with another path, the first process() that finds
\* no lookup loading issues exactly one lookup, for the newly selected path,
\* and no further lookup is issued while the selection stays unchanged.
C5_OneLookupPerSelectionChange ==
    [][ (epoch.kind = "updown" /\ epoch'.kind = "updown") =>
          /\ epoch'.lookups <= 1
          /\ ( /\ pc = "process"
               /\ app.state = "Search"
               /\ app.detail_view_mode = "RelatedFiles"
               /\ ~app.is_loading_related_files
               /\ epoch.lookups = 0 )
             => ( /\ epoch'.lookups = 1
                  /\ app'.related_files_receiver # 0
                  /\ rf_workers'[app'.related_files_receiver].path
                         = Selected(app).path )
      ]_vars

\* C6 as claimed: in Search/Normal with two results, at the end of the loop
\* iteration in which Tab switched the view to RelatedFiles, related_files
\* is empty and exactly one related-files request is outstanding, for the
\* path of the selected result.
C6_OneRequestAtEndOfIteration ==
    [][ ( /\ pc = "recv" /\ pc' = "poll"
          /\ iter_event = "entered_related"
          /\ Len(app.search_results) = 2 )
        => ( /\ app'.detail_view_mode = "RelatedFiles"
             /\ app'.related_files = <<>>
             /\ app'.related_files_receiver # 0
             /\ Alive(rf_workers') = {app'.related_files_receiver}
             /\ rf_workers'[app'.related_files_receiver].path
                    = Selected(app').path )
      ]_vars

\* C6 as amended: in Search/Normal with two results, the Preview view and no
\* lookup loading, the handler of Tab sets the view to RelatedFiles, leaves
\* related_files empty, and when it returns exactly one related-files
\* request is outstanding, for the path of the selected result.
C6_TabIssuesOneRequest ==
    [][ ( /\ pc = "poll"
          /\ key_event' = Key("Tab")
          /\ app.state = "Search"
          /\ app.input_mode = "Normal"
          /\ app.detail_view_mode = "Preview"
          /\ Len(app.search_results) = 2
          /\ ~app.is_loading_related_files )
        => ( /\ app'.detail_view_mode = "RelatedFiles"
             /\ app'.related_files = <<>>
             /\ app'.related_files_receiver # 0
             /\ Alive(rf_workers') = {app'.related_files_receiver}
             /\ rf_workers'[app'.related_files_receiver]
                    = [st |-> "running", path |-> Selected(app').path] )
      ]_vars

C6_Witness ==
    /\ pc = "vector"
    /\ key_event = Key("Tab")
    /\ iter_event = "entered_related"
    /\ app.state = "Search"
    /\ Len(app.search_results) = 2
    /\ app.selected_search_index = 1
    /\ app.related_files = <<>>
    /\ Alive(rf_workers) = {Receiver}
    /\ rf_workers[Receiver].path = Selected(app).path

\* C7: the Tab that switches the view to RelatedFiles issues the first lookup
\* for the selected document, and afterwards no loop iteration without a key
\* event issues a lookup while that document stays selected.
C7_OnlyTheSwitchLooksUp ==
    [][ /\ ( /\ pc = "poll"
             /\ key_event' = Key("Tab")
             /\ epoch'.kind = "tab" /\ epoch'.tabs = 1
             /\ HasSelected(app) )
           => epoch'.lookups = 1
        /\ ( /\ pc = "process"
             /\ iter_event = "none"
             /\ epoch.kind = "tab" /\ epoch.tabs = 1
             /\ epoch.lookups >= 1 )
           => rf_workers' = rf_workers
      ]_vars

\* C8: in Search/Normal, Up and Down leave search_results alone and keep a
\* valid selected_search_index valid: Up at index 0 and Down at the last
\* index leave it unchanged, every other Up lowers it by exactly one and
\* every other Down raises it by exactly one.
C8_UpDownClamp ==
    [][ ( /\ pc = "poll"
          /\ key_event' \in {Key("Up"), Key("Down")}
          /\ app.state = "Search"
          /\ app.input_mode = "Normal"
          /\ IndexValid(app) )
        => LET i == app.selected_search_index
               n == Len(app.search_results)
           IN  /\ app'.search_results = app.search_results
               /\ IndexValid(app')
               /\ key_event' = Key("Up") =>
                      app'.selected_search_index = IF i = 0 THEN 0 ELSE i - 1
               /\ key_event' = Key("Down") =>
                      app'.selected_search_index = IF i + 1 >= n THEN i ELSE i + 1
      ]_vars

C8_Witness ==
    /\ pc = "vector"
    /\ key_event = Key("Down")
    /\ app.state = "Search"
    /\ app.input_mode = "Normal"
    /\ Len(app.search_results) = 2
    /\ app.selected_search_index = 1

\* C9: from the initial state, run() moves Starting to Scanning; the scan's
\* Ok, drained with no key pressed before, moves the state to Preview; Ctrl+S
\* pressed next moves it to Indexing; and when that index build's () is
\* drained the state is Search with search_results empty and InputMode
\* Editing.
C9_StartupPath ==
    /\ boot = "start" => app.state = "Starting"
    /\ boot = "scanning" => app.state = "Scanning"
    /\ boot = "scanned" => app.state = "Preview"
    /\ boot = "indexing" => app.state = "Indexing"
    /\ boot = "search" =>
           /\ app.state = "Search"
           /\ app.search_results = <<>>
           /\ app.input_mode = "Editing"

C9_Witness == boot = "search" /\ pc = "poll" /\ app.state = "Search"

\* C10: when the scan drain receives Err, the state becomes Preview,
\* scan_result and scan_summary stay None, the scan handle is cleared and
\* running is unchanged.
C10_ScanErrorFallsBack ==
    [][ (pc = "scan" /\ app.scanning_receiver /\ scan_worker = "err")
        => ( /\ app'.state = "Preview"
             /\ app'.scan_result = None
             /\ app'.scan_summary = None
             /\ ~app'.scanning_receiver
             /\ scan_worker' = "free"
             /\ app'.running = app.running )
      ]_vars

C10_Witness ==
    /\ boot = "scan_failed"
    /\ pc = "index"
    /\ app.state = "Preview"
    /\ app.scan_result = None
    /\ ~app.scanning_receiver
    /\ app.running

QuitKeys == {Key("Esc"), Key("q"), Ctrl("c")}

SelectedCommand(a) == a.command_items[a.selected_command_index + 1]

Running(ws) == {i \in DOMAIN ws : ws[i].st = "running"}

\* Vector-index workers whose SUCCESS or Error may still be unsent.
Unfinished(ws) == {i \in DOMAIN ws : ws[i].st \in {"start", "processing", "orphan"}}

\* C11 as claimed: with the palette opened by Ctrl+P and Down pressed once
\* (the second entry selected), Enter sets running to false.
C11_DownOnceEnterQuits ==
    [][ ( /\ pc = "poll"
          /\ key_event' = Key("Enter")
          /\ app.state = "CommandPalette"
          /\ app.selected_command_index = 1 )
        => ~app'.running
      ]_vars

\* C11 as amended: Ctrl+P opens the palette on its first entry, Down moves
\* one entry down, and with Down pressed three times (the fourth entry, Quit,
\* selected) Enter sets running to false; from then on no key is read and the
\* loop exits at its next test of running.
C11_DownThriceEnterQuits ==
    [][ /\ ( /\ pc = "poll"
             /\ key_event' = Ctrl("p")
             /\ app'.state = "CommandPalette"
             /\ app.state # "CommandPalette" )
           => ( /\ app'.selected_command_index = 0
                /\ app'.command_items = CommandNames )
        /\ ( /\ pc = "poll"
             /\ key_event' = Key("Down")
             /\ app.state = "CommandPalette"
             /\ app.selected_command_index < 3 )
           => app'.selected_command_index = app.selected_command_index + 1
        /\ ( /\ pc = "poll"
             /\ key_event' = Key("Enter")
             /\ app.state = "CommandPalette"
             /\ app.selected_command_index = 3 )
           => ( /\ SelectedCommand(app) = "Quit"
                /\ ~app'.running )
        /\ (pc # "start" /\ ~app.running)
           => ( /\ ~app'.running
                /\ key_event' \in {key_event, NoKey}
                /\ pc = "poll" => pc' = "done" )
      ]_vars

C11_Witness ==
    /\ pc = "done"
    /\ ~app.running
    /\ app.state = "CommandPalette"
    /\ app.selected_command_index = 3

\* C12: in every state other than Search with InputMode Editing, Ctrl+P moves
\* the state to CommandPalette.
C12_CtrlPOpensPalette ==
    [][ ( /\ pc = "poll"
          /\ key_event' = Ctrl("p")
          /\ ~(app.state = "Search" /\ app.input_mode = "Editing") )
        => app'.state = "CommandPalette"
      ]_vars

\* C13: an index-build worker is spawned only when no index-build worker
\* spawned before is still running, and a vector-index worker only when no
\* vector-index worker spawned before has yet to send SUCCESS or Error.
C13_SingleOutstandingOperation ==
    [][ /\ (pc = "poll" /\ app'.indexing_receiver # app.indexing_receiver)
           => Running(idx_workers) = {}
        /\ ( /\ pc = "poll"
             /\ app.state # "IndexingVectors"
             /\ app'.state = "IndexingVectors" )
           => Unfinished(vec_workers) = {}
      ]_vars

\* C14: in IndexingVectors with SUCCESS or Error drained, the vector-index
\* step of the loop moves the state only to Preview and only when 2 seconds
\* have passed since the drain.
C14_GracePeriodHeld ==
    [][ ( /\ pc = "vector"
          /\ app.state = "IndexingVectors"
          /\ app.vector_indexing_complete
          /\ app'.state # "IndexingVectors" )
        => ( /\ app'.state = "Preview"
             /\ app.vector_indexing_success_time # None
             /\ app.vector_indexing_success_time[1] >= GRACE_SECS )
      ]_vars

\* C15: in Preview, Search, CommandPalette and IndexingVectors, Ctrl+S sets
\* the state to Indexing, empties search_query and search_results, sets
\* selected_search_index to 0, and registers a fresh index handle on which
\* exactly one index worker is spawned.
C15_CtrlSStartsIndexing ==
    [][ ( /\ pc = "poll"
          /\ key_event' = Ctrl("s")
          /\ app.state \in {"Preview", "Search", "CommandPalette", "IndexingVectors"} )
        => ( /\ app'.state = "Indexing"
             /\ app'.search_query = <<>>
             /\ app'.search_results = <<>>
             /\ app'.selected_search_index = 0
             /\ app'.indexing_receiver # 0
             /\ idx_workers[app'.indexing_receiver].st = "free"
             /\ Running(idx_workers') \ Running(idx_workers)
                    = {app'.indexing_receiver} )
      ]_vars

C15_Witness ==
    /\ pc = "vector"
    /\ key_event = Ctrl("s")
    /\ key_ctx.state = "IndexingVectors"
    /\ app.state = "Indexing"
    /\ app.indexing_receiver # 0
    /\ idx_workers[app.indexing_receiver].st = "running"

\* C16: in Starting, Scanning, Preview, Indexing and IndexingVectors each of
\* Esc, q and Ctrl+C sets running to false; in Search and in CommandPalette
\* none of them does, and the only key that sets running to false there is
\* Enter on the palette's Quit entry.
C16_QuitKeys ==
    [][ /\ (pc = "poll" /\ key_event' \in QuitKeys)
           => ( /\ app.state \in {"Starting", "Scanning", "Preview", "Indexing",
                                  "IndexingVectors"}
                   => ~app'.running
                /\ app.state \in {"Search", "CommandPalette"} => app'.running )
        /\ ( /\ pc = "poll"
             /\ app.running
             /\ app.state \in {"Search", "CommandPalette"}
             /\ ~app'.running )
           => ( /\ app.state = "CommandPalette"
                /\ key_event' = Key("Enter")
                /\ SelectedCommand(app) = "Quit" )
      ]_vars

C16_Witness ==
    /\ pc = "vector"
    /\ key_event = Ctrl("c")
    /\ key_ctx.state = "IndexingVectors"
    /\ app.state = "IndexingVectors"
    /\ ~app.running

\* C17: Ctrl+E leaves the whole App (state, input mode, detail view, query,
\* results, selection, handles, running) and every worker's channel as they
\* were, and the loop goes back to the poll without running the drains.
C17_CtrlELeavesAll ==
    [][ (pc = "poll" /\ key_event' = Ctrl("e"))
        => ( /\ app' = app
             /\ workers' = workers
             /\ pc' = "poll" )
      ]_vars

C17_Witness ==
    /\ pc = "poll"
    /\ key_event = Ctrl("e")
    /\ key_ctx.state = "IndexingVectors"
    /\ app.vector_indexing_receiver # 0
    /\ vec_workers[app.vector_indexing_receiver].q # <<>>

\* The memo after a reset: none, or the path of the selected result.
ResetMemo(a) ==
    IF HasSelected(a) THEN {None, Some(Selected(a).path)} ELSE {None}

\* C18: in Search/Normal, Tab or r switches DetailViewMode to the other of
\* Preview and RelatedFiles, and when the view entered is RelatedFiles,
\* related_files is empty, related_files_error is none and the memo
\* current_related_document_path is reset.
C18_TabTogglesAndResets ==
    [][ ( /\ pc = "poll"
          /\ key_event' \in {Key("Tab"), Key("r")}
          /\ app.state = "Search"
          /\ app.input_mode = "Normal" )
        => ( /\ app'.detail_view_mode # app.detail_view_mode
             /\ app'.detail_view_mode = "RelatedFiles"
                => ( /\ app'.related_files = <<>>
                     /\ app'.related_files_error = None
                     /\ app'.current_related_document_path \in ResetMemo(app') ) )
      ]_vars

\* C19 as claimed: in Search/Normal, Enter opens the selected result in the
\* editor and then the state is Preview.
C19_EnterOpensThenPreview ==
    [][ ( /\ pc = "poll"
          /\ key_event' = Key("Enter")
          /\ app.state = "Search"
          /\ app.input_mode = "Normal" )
        => ( /\ key_ctx'.opened # None
             /\ app'.state = "Preview" )
      ]_vars

\* C19 as amended: in Search/Normal, Enter with a result selected opens that
\* result's path in the editor and then the state is Preview, nothing else
\* of the App changing; with no result selected Enter opens nothing and
\* changes nothing.
C19_EnterOpensSelected ==
    [][ ( /\ pc = "poll"
          /\ key_event' = Key("Enter")
          /\ app.state = "Search"
          /\ app.input_mode = "Normal" )
        => IF HasSelected(app)
           THEN /\ key_ctx'.opened = Some(Selected(app).path)
                /\ app' = [app EXCEPT !.state = "Preview"]
           ELSE /\ key_ctx'.opened = None
                /\ app' = app
      ]_vars

C19_Witness ==
    /\ pc = "vector"
    /\ key_event = Key("Enter")
    /\ key_ctx.state = "Search"
    /\ key_ctx.input_mode = "Normal"
    /\ key_ctx.opened # None
    /\ app.state = "Preview"
    /\ app.selected_search_index = 1
    /\ key_ctx.opened = Some(Selected(app).path)

\* C20: in Search/Editing with a search engine configured, each character
\* typed calls the query function once, with the query as it is after the
\* character (so "f", "fo", "foo" for f, o, o typed on an empty query), and
\* after the keystroke search_results is what the call returned and
\* selected_search_index is 0; a backspace on a one-character query calls
\* nothing, leaves search_results empty and the index 0.
C20_TypingSearches ==
    [][ ( /\ pc = "poll"
          /\ app.state = "Search"
          /\ app.input_mode = "Editing"
          /\ app.search_engine )
        => ( /\ \A c \in Chars :
                  key_event' = Key(c)
                  => ( /\ key_ctx'.call # None
                       /\ key_ctx'.call[1].query = Append(app.search_query, c)
                       /\ app'.search_query = Append(app.search_query, c)
                       /\ app'.search_results = key_ctx'.call[1].out.results
                       /\ app'.selected_search_index = 0 )
             /\ (key_event' = Key("Backspace") /\ Len(app.search_query) = 1)
                => ( /\ key_ctx'.call = None
                     /\ app'.search_query = <<>>
                     /\ app'.search_results = <<>>
                     /\ app'.selected_search_index = 0 ) )
      ]_vars

\* C21: in Search/Normal, '/' sets InputMode to Editing and changes nothing
\* else, Esc moves the state to Preview, and no key other than Ctrl+S changes
\* search_query; in Search/Editing, Esc sets InputMode to Normal and changes
\* nothing else, and Enter sets InputMode to Normal, stays in Search, keeps
\* the query and runs it again: a non-empty query is searched for (with an
\* engine configured) and search_results is what the search returned.
C21_InputModeSwitching ==
    [][ (pc = "poll" /\ app.state = "Search" /\ key_event' \notin {NoKey, Ctrl("e")})
        => IF app.input_mode = "Normal"
           THEN /\ key_event' = Key("/")
                   => app' = [app EXCEPT !.input_mode = "Editing"]
                /\ key_event' = Key("Esc") => app'.state = "Preview"
                /\ key_event' # Ctrl("s") => app'.search_query = app.search_query
           ELSE /\ key_event' = Key("Esc")
                   => app' = [app EXCEPT !.input_mode = "Normal"]
                /\ key_event' = Key("Enter")
                   => ( /\ app'.input_mode = "Normal"
                        /\ app'.state = "Search"
                        /\ app'.search_query = app.search_query
                        /\ (app.search_query # <<>> /\ app.search_engine)
                           => ( /\ key_ctx'.call # None
                                /\ key_ctx'.call[1].query = app.search_query
                                /\ app'.search_results
                                       = key_ctx'.call[1].out.results )
                        /\ app.search_query = <<>>
                           => ( /\ key_ctx'.call = None
                                /\ app'.search_results = <<>> ) )
      ]_vars

C21_Witness ==
    /\ pc = "vector"
    /\ key_event = Key("Enter")
    /\ key_ctx.state = "Search"
    /\ key_ctx.input_mode = "Editing"
    /\ key_ctx.call # None
    /\ app.state = "Search"
    /\ app.input_mode = "Normal"
    /\ app.search_results # <<>>

\* C22: whenever the state is CommandPalette the menu is Search, Index
\* Vectors, Open Config Editor, Quit in that order; there Esc moves to Preview
\* and changes nothing else, and Enter does what the selected entry says and
\* no more: Search spawns one index worker on a fresh handle and leaves the
\* state Search, Index Vectors enters IndexingVectors and spawns a vector
\* worker, Open Config Editor changes the state to Preview only, Quit sets
\* running to false only.
C22_PaletteMenu ==
    [][ /\ app'.state = "CommandPalette" => app'.command_items = CommandNames
        /\ (pc = "poll" /\ app.state = "CommandPalette" /\ key_event' = Key("Esc"))
           => ( /\ app' = [app EXCEPT !.state = "Preview"]
                /\ workers' = workers )
        /\ (pc = "poll" /\ app.state = "CommandPalette" /\ key_event' = Key("Enter"))
           => CASE SelectedCommand(app) = "Search" ->
                       /\ app'.state = "Search"
                       /\ app'.running
                       /\ app'.indexing_receiver # 0
                       /\ idx_workers[app'.indexing_receiver].st = "free"
                       /\ Running(idx_workers') \ Running(idx_workers)
                              = {app'.indexing_receiver}
                       /\ app'.vector_indexing_receiver = app.vector_indexing_receiver
                       /\ Unfinished(vec_workers') \subseteq Unfinished(vec_workers)
                [] SelectedCommand(app) = "Index Vectors" ->
                       /\ app'.state = "IndexingVectors"
                       /\ app'.running
                       /\ app'.vector_indexing_receiver # 0
                       /\ vec_workers'[app'.vector_indexing_receiver]
                              = [st |-> "start", q |-> <<>>]
                       /\ app'.indexing_receiver = app.indexing_receiver
                       /\ Running(idx_workers') \subseteq Running(idx_workers)
                [] SelectedCommand(app) = "Open Config Editor" ->
                       /\ app' = [app EXCEPT !.state = "Preview"]
                       /\ workers' = workers
                [] SelectedCommand(app) = "Quit" ->
                       /\ app' = [app EXCEPT !.running = FALSE]
                       /\ workers' = workers
      ]_vars

C22_Witness ==
    /\ pc = "vector"
    /\ key_event = Key("Enter")
    /\ key_ctx.state = "CommandPalette"
    /\ app.state = "Search"
    /\ app.command_items = CommandNames
    /\ app.selected_command_index = 0
    /\ app.indexing_receiver # 0
    /\ idx_workers[app.indexing_receiver].st = "running"

VectorTerminal == {"SUCCESS", "Error"}

\* The terminal messages among what a vector-index worker has sent and the
\* loop has not yet received.
TerminalsIn(q) == {k \in DOMAIN q : q[k] \in VectorTerminal}

\* C23: a worker that ends has sent its terminal message: the scan worker Ok
\* or Err, an index worker (), a related-files worker Ok or Err, and a
\* vector-index worker, after intermediate status strings at most, SUCCESS
\* or an Error string, once, with nothing sent after it.
C23_OneTerminalMessage ==
    [][ /\ (scan_worker = "running" /\ scan_worker' # "running")
           => scan_worker' \in {"ok", "err"}
        /\ \A i \in DOMAIN idx_workers :
              ( /\ i = app.indexing_receiver
                /\ idx_workers[i].st = "running"
                /\ idx_workers'[i].st # "running" )
              => idx_workers'[i].st = "ok"
        /\ \A i \in DOMAIN rf_workers :
              ( /\ i = app.related_files_receiver
                /\ rf_workers[i].st = "running"
                /\ rf_workers'[i].st # "running" )
              => rf_workers'[i].st \in {"ok", "none", "err"}
        /\ \A i \in DOMAIN vec_workers :
              /\ (Listening(app, i) /\ vec_workers'[i].st = "exited")
                 => vec_workers[i].st \in {"finishing", "exited"}
              /\ ( /\ Listening(app, i)
                   /\ vec_workers[i].st = "finishing"
                   /\ vec_workers'[i].st \in {"finishing", "exited"} )
                 => TerminalsIn(vec_workers'[i].q) \subseteq {Len(vec_workers'[i].q)}
      ]_vars

\* C24: at the process() of a loop iteration that finds the state Search,
\* the RelatedFiles view, no lookup loading and search_results non-empty, a
\* lookup for the selected result's path is issued exactly when
\* current_related_document_path is none or another path, and afterwards
\* current_related_document_path is that path; with the memo equal to the
\* path nothing changes.  No time has to pass first.
C24_MemoDecidesLookup ==
    [][ ( /\ pc = "process"
          /\ app.state = "Search"
          /\ app.detail_view_mode = "RelatedFiles"
          /\ ~app.is_loading_related_files
          /\ app.search_results # <<>> )
        => ( /\ HasSelected(app)
             /\ app'.current_related_document_path = Some(Selected(app).path)
             /\ IF app.current_related_document_path = Some(Selected(app).path)
                THEN /\ app' = app
                     /\ rf_workers' = rf_workers
                ELSE /\ app'.is_loading_related_files
                     /\ app'.related_files_receiver # 0
                     /\ rf_workers[app'.related_files_receiver].st = "free"
                     /\ rf_workers'[app'.related_files_receiver]
                            = [st |-> "running", path |-> Selected(app).path]
                     /\ Running(rf_workers') \ Running(rf_workers)
                            = {app'.related_files_receiver} )
      ]_vars

C24_Witness ==
    /\ pc = "recv"
    /\ app.state = "Search"
    /\ app.detail_view_mode = "RelatedFiles"
    /\ app.is_loading_related_files
    /\ epoch.kind = "updown"
    /\ epoch.lookups = 1
    /\ app.selected_search_index = 1
    /\ app.current_related_document_path = Some(Selected(app).path)
    /\ rf_workers[app.related_files_receiver]
           = [st |-> "running", path |-> Selected(app).path]

\* C25: the scan drain changes ApplicationState only in Scanning and the
\* index drain only in Indexing: in any other state a completion drained
\* leaves ApplicationState as it is.
C25_CompletionOnlyInItsState ==
    [][ /\ (pc = "scan" /\ pc' = "index" /\ app.state # "Scanning")
           => app'.state = app.state
        /\ (pc = "index" /\ pc' = "process" /\ app.state # "Indexing")
           => app'.state = app.state
      ]_vars

\* C26: when the scan drain (the index drain) finds its channel disconnected
\* with no message sent, it clears the handle, and a state of Scanning
\* (Indexing) becomes Preview.
C26_DisconnectedFallsBack ==
    [][ /\ ( /\ pc = "scan" /\ pc' = "index"
             /\ app.scanning_receiver
             /\ ScanRecv = Disconnected )
           => ( /\ ~app'.scanning_receiver
                /\ app.state = "Scanning" => app'.state = "Preview" )
        /\ ( /\ pc = "index" /\ pc' = "process"
             /\ app.indexing_receiver # 0
             /\ IndexRecv(app.indexing_receiver) = Disconnected )
           => ( /\ app'.indexing_receiver = 0
                /\ app.state = "Indexing" => app'.state = "Preview" )
      ]_vars

RelatedDisconnectedText == "Failed to process related files request"

\* What the loop's try_recv on the channel it listens to returns in this
\* state.
RelatedSeen == RelatedRecv(app.related_files_receiver)
VectorSeen == VectorRecv(app.vector_indexing_receiver)

\* C27: the related-files drain that finds its channel disconnected sets
\* is_loading_related_files to false, clears the handle and sets
\* related_files_error, and changes nothing else; the vector-index drain
\* that finds its channel disconnected in IndexingVectors clears the handle
\* and sets the state to Preview, running staying as it is; a drain that
\* finds its channel empty changes nothing (the vector step then does what
\* its grace-period check does, and no more).
C27_DisconnectedChannels ==
    [][ /\ (pc = "recv" /\ pc' = "poll" /\ app.related_files_receiver # 0)
           => ( /\ RelatedSeen = Disconnected
                   => app' = [app EXCEPT !.is_loading_related_files = FALSE,
                                         !.related_files_receiver = 0,
                                         !.related_files_error =
                                             Some(RelatedDisconnectedText)]
                /\ RelatedSeen = Empty => app' = app )
        /\ ( /\ pc = "vector" /\ pc' = "scan"
             /\ app.state = "IndexingVectors"
             /\ app.vector_indexing_receiver # 0 )
           => ( /\ VectorSeen = Disconnected
                   => ( /\ app'.vector_indexing_receiver = 0
                        /\ app'.state = "Preview"
                        /\ app'.running = app.running )
                /\ VectorSeen = Empty => app' = grace_check(app) )
      ]_vars

C27_Witness ==
    /\ pc = "poll"
    /\ app.running
    /\ app.state = "Preview"
    /\ app.vector_indexing_status # None
    /\ app.vector_indexing_receiver = 0
    /\ ~app.is_loading_related_files
    /\ app.related_files_receiver = 0
    /\ app.related_files_error = Some(RelatedDisconnectedText)

RelatedEmptyText == "No related documents found that meet the similarity threshold."

\* C28: the drain at the end of an iteration that receives a related-files
\* completion applies it whatever the ApplicationState and the DetailViewMode
\* are: a non-empty list becomes related_files with no error, an empty list
\* or an error becomes related_files_error, is_loading_related_files is set
\* to false, the handle is cleared, and nothing else changes, ApplicationState
\* included.
C28_CompletionAppliedAnywhere ==
    [][ ( /\ pc = "recv" /\ pc' = "poll"
          /\ app.related_files_receiver # 0
          /\ RelatedSeen.kind = "Ok" )
        => LET done == [app EXCEPT !.is_loading_related_files = FALSE,
                                   !.related_files_receiver = 0]
               sent == RelatedSeen.payload
           IN  /\ app'.state = app.state
               /\ app'.detail_view_mode = app.detail_view_mode
               /\ app' = IF ~sent.ok
                         THEN [done EXCEPT !.related_files_error = Some(sent.error)]
                         ELSE IF sent.results = <<>>
                         THEN [done EXCEPT !.related_files_error =
                                               Some(RelatedEmptyText)]
                         ELSE [done EXCEPT !.related_files = sent.results,
                                           !.related_files_error = None]
      ]_vars

C28_Witness ==
    /\ pc = "poll"
    /\ iter_event = "related_applied"
    /\ app.state = "IndexingVectors"
    /\ app.related_files # <<>>
    /\ app.related_files_error = None
    /\ ~app.is_loading_related_files
    /\ app.related_files_receiver = 0

\* C29: with the loop going on and every related-files thread ending,
\* whenever is_loading_related_files is true it is false later on, unless
\* the loop has stopped running; whatever keys are pressed meanwhile.
C29_LookupEventuallyCompletes ==
    app.is_loading_related_files
        ~> (~app.is_loading_related_files \/ ~app.running)

C29_Witness ==
    /\ pc = "poll"
    /\ iter_event = "related_applied"
    /\ app.running
    /\ app.state = "Preview"
    /\ ~app.is_loading_related_files
    /\ app.related_files_error = Some("lookup failed")

\* C30: in IndexingVectors a drained message that is neither SUCCESS nor an
\* Error string replaces vector_indexing_status and changes nothing else
\* (ApplicationState, vector_indexing_complete and
\* vector_indexing_success_time included); in any other state the
\* vector-index step of the loop changes nothing and receives nothing, what
\* was sent staying in the channel.
C30_IntermediateStatusOnly ==
    [][ (pc = "vector" /\ pc' = "scan")
        => ( /\ ( /\ app.state = "IndexingVectors"
                  /\ app.vector_indexing_receiver # 0
                  /\ VectorSeen.kind = "Ok"
                  /\ VectorSeen.payload \notin VectorTerminal )
                => app' = [app EXCEPT !.vector_indexing_status =
                                          Some(VectorSeen.payload)]
             /\ app.state # "IndexingVectors"
                => ( /\ app' = app
                     /\ \A i \in DOMAIN vec_workers :
                           vec_workers'[i].q = vec_workers[i].q ) )
      ]_vars

C30_Witness ==
    /\ pc = "scan"
    /\ app.state = "IndexingVectors"
    /\ app.vector_indexing_status = Some("Processing documents...")
    /\ ~app.vector_indexing_complete
    /\ app.vector_indexing_success_time = None

----------------------------------------------------------------------------
\* The key just handled edited the query: a character or Backspace met
\* Search in the Editing mode.
QueryMutated ==
    /\ pc = "vector"
    /\ key_ctx.state = "Search"
    /\ key_ctx.input_mode = "Editing"
    /\ ~IsCtrl(key_event, "s")
    /\ key_event.code \in Chars \cup {"Backspace"}

\* The search of that key failed: SearchEngine::search answered Err.
SearchFailed == key_ctx.call # None /\ ~key_ctx.call[1].out.ok

\* C31: when no search engine is configured or the search call fails, a key
\* that edits the query leaves search_results empty, running true and the
\* state Search.
C31_SearchDegradesToEmpty ==
    QueryMutated /\ (~app.search_engine \/ SearchFailed)
        => /\ app.search_results = <<>>
           /\ app.running
           /\ app.state = "Search"

\* A failed search emptied a list in which the second result was selected.
C31_Witness ==
    /\ QueryMutated
    /\ SearchFailed
    /\ app.search_results = <<>>
    /\ app.selected_search_index = 1
    /\ app.running
    /\ app.state = "Search"

----------------------------------------------------------------------------
\* C32: in Search with the RelatedFiles view, when process() has run in a
\* loop iteration with no key event, found no lookup loading and left none
\* loading, the related_files the app holds are the outcome of a lookup
\* issued for the path of the selected result.
C32_RelatedFilesOfSelected ==
    [][ ( /\ pc = "process" /\ pc' = "recv"
          /\ iter_event = "none"
          /\ app.state = "Search"
          /\ app.detail_view_mode = "RelatedFiles"
          /\ ~app.is_loading_related_files
          /\ ~app'.is_loading_related_files
          /\ HasSelected(app')
          /\ app'.related_files # <<>> )
        => app'.related_files = RelatedOf(Selected(app').path)
      ]_vars

----------------------------------------------------------------------------
\* C33: whenever a related-files lookup is outstanding,
\* current_related_document_path is the path of the document that lookup
\* was issued for.
C33_MemoNamesOutstandingLookup ==
    Receiver # 0
        => app.current_related_document_path = Some(rf_workers[Receiver].path)

----------------------------------------------------------------------------
\* C34: whenever the state is Search no index handle is registered: Search
\* is entered only after the most recently started index build has
\* signalled completion.
C34_SearchAfterIndexBuilt ==
    app.state = "Search" => app.indexing_receiver = 0

----------------------------------------------------------------------------
\* C35: every entry into the Search state starts with the Editing input
\* mode, the Preview detail view and no related files.
C35_SearchEnteredFresh ==
    [][ (app.state # "Search" /\ app'.state = "Search")
        => ( /\ app'.input_mode = "Editing"
             /\ app'.detail_view_mode = "Preview"
             /\ app'.related_files = <<>> )
      ]_vars

----------------------------------------------------------------------------
\* The index worker the loop listens to, and the index workers it has
\* stopped listening to.
IndexReceiver == app.indexing_receiver
EarlierIndexWorkers ==
    {i \in DOMAIN idx_workers : i # IndexReceiver /\ idx_workers[i].st = "running"}

\* C36: Ctrl+S pressed while an index build is outstanding replaces the
\* receiver by the channel of a newly spawned worker and leaves the earlier
\* worker running; the end of the earlier worker changes nothing in the
\* loop; the index drain leaves the App alone while the latest worker has
\* not sent, and moves the state to Search only on the latest worker's
\* message.
C36_OnlyLatestIndexCompletionCounts ==
    [][ /\ ( /\ pc = "poll"
             /\ key_event' = Ctrl("s")
             /\ IndexReceiver # 0
             /\ idx_workers[IndexReceiver].st = "running" )
           => ( /\ app'.indexing_receiver \notin {0, IndexReceiver}
                /\ idx_workers'[app'.indexing_receiver].st = "running"
                /\ idx_workers'[IndexReceiver].st = "running" )
        /\ \A i \in EarlierIndexWorkers :
               idx_workers'[i].st # "running"
                   => /\ app' = app
                      /\ pc' = pc
                      /\ idx_workers'[i] = FreeWorker
        /\ ( /\ pc = "index" /\ pc' = "process"
             /\ IndexReceiver # 0
             /\ idx_workers[IndexReceiver].st = "running" )
           => app' = app
        /\ ( /\ pc = "index"
             /\ app.state # "Search"
             /\ app'.state = "Search" )
           => ( /\ IndexReceiver # 0
                /\ idx_workers[IndexReceiver].st = "ok" )
      ]_vars

\* Ctrl+S was pressed while a build was outstanding: two index workers run,
\* and the loop listens to one of them.
C36_Witness ==
    /\ pc = "vector"
    /\ key_event = Ctrl("s")
    /\ app.state = "Indexing"
    /\ IndexReceiver # 0
    /\ idx_workers[IndexReceiver].st = "running"
    /\ EarlierIndexWorkers # {}

----------------------------------------------------------------------------
\* C37: in every reachable state related_files is empty or
\* related_files_error is None: a lookup outcome is a non-empty list with
\* no error, or an error with an empty list.
C37_FilesOrError ==
    app.related_files = <<>> \/ app.related_files_error = None

\* An error was drained for a lookup that process() issued.
C37_Witness ==
    /\ pc = "poll"
    /\ iter_event = "related_applied"
    /\ app.current_related_document_path # None
    /\ app.related_files_error # None
    /\ app.related_files = <<>>
    /\ ~app.is_loading_related_files

----------------------------------------------------------------------------
LastCommand(a) == Len(a.command_items) - 1

\* C38: whenever the state is CommandPalette, selected_command_index is in
\* [0, len(command_items)); opening the palette sets it to 0, Up at 0 and
\* Down at the last entry change nothing, and Enter invokes the action of
\* the selected entry.
C38_PaletteIndexInRange ==
    [][ /\ app'.state = "CommandPalette"
           => app'.selected_command_index \in 0..LastCommand(app')
        /\ (app.state # "CommandPalette" /\ app'.state = "CommandPalette")
           => app'.selected_command_index = 0
        /\ (pc = "poll" /\ pc' = "vector" /\ app.state = "CommandPalette")
           => /\ ( /\ key_event' = Key("Up")
                   /\ app.selected_command_index = 0 ) => app' = app
              /\ ( /\ key_event' = Key("Down")
                   /\ app.selected_command_index = LastCommand(app) ) => app' = app
              /\ key_event' = Key("Enter")
                 => app' = command_action(app, SelectedCommand(app),
                                          NewId(idx_workers), NewStream(vec_workers))
      ]_vars

\* Down was pressed in the palette and the last entry is selected.
C38_Witness ==
    /\ pc = "vector"
    /\ key_event = Key("Down")
    /\ app.state = "CommandPalette"
    /\ app.selected_command_index = LastCommand(app)
    /\ LastCommand(app) = 3

----------------------------------------------------------------------------
\* The loop was running and quit() has been called.
Stopped == pc # "start" /\ ~app.running

\* C39: once running has become false it stays false and no further key is
\* handled; the drains of the final iteration may still write fields, and
\* the control loop ends.
C39_StoppedLoopEnds ==
    /\ [][ Stopped => ( /\ ~app'.running
                        /\ key_event' \in {key_event, NoKey}
                        /\ key_ctx' \in {key_ctx, NoCtx}
                        /\ pc = "poll" => pc' = "done" ) ]_vars
    /\ (Stopped ~> pc = "done")

\* The loop has ended in the state Search: the quit key was pressed in
\* Indexing, and the index drain of the final iteration received the
\* worker's message.
C39_Witness ==
    /\ pc = "done"
    /\ ~app.running
    /\ app.state = "Search"
    /\ app.indexing_receiver = 0

====
